---- MODULE Spec2Model ----
(***************************************************************************)
(* Model of LoaderVirtualCarrierCommandGroup                               *)
(* (sentio_prober_control/Sentio/CommandGroups/                            *)
(*  LoaderVirtualCarrierCommandGroup.py).                                  *)
(*                                                                         *)
(* A text string is a sequence of lexemes: the separators "," and " " are  *)
(* lexemes of their own, every other lexeme is a separator-free chunk.     *)
(* The empty string is <<>>.  A caller invokes one operation at a time;    *)
(* pc is the position inside the running operation.                        *)
(***************************************************************************)
EXTENDS Integers, Sequences, FiniteSets, TLC

VARIABLES pc, op, resp, wresp, sent, reads, pending, scCalls, completion, ret

vars == <<pc, op, resp, wresp, sent, reads, pending, scCalls, completion, ret>>

\* Largest number of step records in a generated payload.
MaxRecords == 2

----------------------------------------------------------------------------
\* Text helpers (Python str semantics)

\* str.split(sep): the pieces between occurrences of sep; never empty.
RECURSIVE Split(_, _)
Split(s, sep) ==
    IF \A i \in 1..Len(s) : s[i] # sep
    THEN <<s>>
    ELSE LET i == CHOOSE k \in 1..Len(s) :
                      s[k] = sep /\ \A j \in 1..(k - 1) : s[j] # sep
         IN  <<SubSeq(s, 1, i - 1)>> \o Split(SubSeq(s, i + 1, Len(s)), sep)

\* sep.join(parts)
RECURSIVE Join(_, _)
Join(parts, sep) ==
    IF parts = <<>> THEN <<>>
    ELSE IF Len(parts) = 1 THEN parts[1]
    ELSE parts[1] \o <<sep>> \o Join(Tail(parts), sep)

\* str.strip() restricted to blanks, as applied by int() and float()
RECURSIVE Strip(_)
Strip(s) ==
    IF s = <<>> THEN s
    ELSE IF s[1] = " " THEN Strip(Tail(s))
    ELSE IF s[Len(s)] = " " THEN Strip(SubSeq(s, 1, Len(s) - 1))
    ELSE s

\* Decimal literals and their values
IntLits == {"0", "1", "2", "3", "5", "30", "90"}

IntValue(l) ==
    CASE l = "0" -> 0 [] l = "1" -> 1 [] l = "2" -> 2 [] l = "3" -> 3
      [] l = "5" -> 5 [] l = "30" -> 30 [] l = "90" -> 90

\* str(n) of an f-string substitution
IntStr(n) ==
    CASE n = 0 -> "0" [] n = 1 -> "1" [] n = 2 -> "2" [] n = 3 -> "3"
      [] n = 5 -> "5" [] n = 30 -> "30" [] n = 90 -> "90"

\* str(b) of an f-string substitution
BoolStr(b) == IF b THEN "True" ELSE "False"

\* Floating point literals; values are kept in tenths.
FloatLits == {"24.0", "25.5", "26.0"}

FloatValue(l) ==
    CASE l = "24.0" -> 240 [] l = "25.5" -> 255 [] l = "26.0" -> 260
      [] OTHER -> 10 * IntValue(l)

\* int(s): value or ValueError
int_ok(s) == Len(Strip(s)) = 1 /\ Strip(s)[1] \in IntLits
int(s) == IntValue(Strip(s)[1])

\* float(s): value or ValueError
float_ok(s) == Len(Strip(s)) = 1 /\ Strip(s)[1] \in FloatLits \cup IntLits
float(s) == FloatValue(Strip(s)[1])

----------------------------------------------------------------------------
\* Collaborators

\* Enumeration member names used by the instrument
VirtualCarrierStepProcessingState == {"Processing", "Done"}
LoaderStation == {"Station1", "Station2", "Station3"}
VirtualCarrierInitFlags == {"Start", "Continue"}

toSentioAbbr(mode) == IF mode = "Start" THEN "start" ELSE "continue"

\* Enum[name]: lookup by exact name
enum_ok(enum, s) == Len(s) = 1 /\ s[1] \in enum

CarrierNames == {"A", "B"}
CmdIds == {1, 2}
Timeouts == {30, 90}

\* Well formed step records, as their six fields
Records ==
    { <<"Processing", "1", "Station1", "2", "25.5", "0">>,
      <<"Processing", "2", "Station2", "3", "26.0", "1">>,
      <<"Done", "5", "Station3", "1", "24.0", "2">> }

RecordLists == UNION { [1..k -> Records] : k \in 1..MaxRecords }

RecordText(r) == Join([i \in 1..6 |-> <<r[i]>>], " ")

StepPayload(rs) == Join([i \in 1..Len(rs) |-> RecordText(rs[i])], ",")

NameLists == { <<"A">>, <<"A", "B">>, <<"B", "A", "C">> }

NamePayload(ns) == Join([i \in 1..Len(ns) |-> <<ns[i]>>], ",")

\* Payloads the instrument may put in a reply
Payloads ==
    { StepPayload(rs) : rs \in RecordLists }
      \cup { NamePayload(ns) : ns \in NameLists }
      \cup { <<>>,
             <<"Done", ",", "5", ",", "Station3", ",", " ", "1", ",", "24.0", ",", "2">>,
             <<"Bogus", " ", "1", " ", "Station1", " ", "2", " ", "25.5", " ", "0">>,
             <<"Done", " ", "5", " ", "Station3", " ", "x", " ", "24.0", " ", "2">>,
             <<"Done", " ", "5", " ", "Station3">> }

\* A parsed reply line: status, correlation id, payload
Lines == [errc : {"ok", "rejected"}, cmd_id : CmdIds, msg : Payloads]

NoResponse == [errc |-> "none", cmd_id |-> 0, msg |-> <<>>]

\* Response.check_resp: fails when the status indicates a remote failure
check_resp_ok(line) == line.errc = "ok"

----------------------------------------------------------------------------
\* Outcomes of an operation

NoResult == [kind |-> "none", error |-> "", value |-> <<>>]
Returned(v) == [kind |-> "returned", error |-> "", value |-> v]
Raised(e) == [kind |-> "raised", error |-> e, value |-> <<>>]

\* Command lines
WaitLine(id, timeout) ==
    <<"wait_complete", " ", IntStr(id), ",", " ", IntStr(timeout)>>

IsWaitLine(c) == Len(c) > 0 /\ c[1] = "wait_complete"

----------------------------------------------------------------------------
\* Decoding of one step record from its columns (lines 98-104, 125-132)
DecodeError(col) ==
    IF ~enum_ok(VirtualCarrierStepProcessingState, col[1]) THEN "KeyError"
    ELSE IF Len(col) < 2 THEN "IndexError"
    ELSE IF Len(col) < 3 THEN "IndexError"
    ELSE IF ~enum_ok(LoaderStation, col[3]) THEN "KeyError"
    ELSE IF Len(col) < 4 THEN "IndexError"
    ELSE IF ~int_ok(col[4]) THEN "ValueError"
    ELSE IF Len(col) < 5 THEN "IndexError"
    ELSE IF ~float_ok(col[5]) THEN "ValueError"
    ELSE IF Len(col) < 6 THEN "IndexError"
    ELSE IF ~int_ok(col[6]) THEN "ValueError"
    ELSE ""

DecodeStep(col) ==
    <<col[1][1], col[2], col[3][1], int(col[4]), float(col[5]), int(col[6])>>

\* Variant of the loop that inserts each step at the front of steps
RECURSIVE ParseStepsPrepend(_, _)
ParseStepsPrepend(steps_as_str, steps) ==
    IF steps_as_str = <<>> THEN Returned(steps)
    ELSE LET col == Split(Head(steps_as_str), " ")
         IN  IF DecodeError(col) # ""
             THEN Raised(DecodeError(col))
             ELSE ParseStepsPrepend(Tail(steps_as_str), <<DecodeStep(col)>> \o steps)

\* The loop of initialize over steps_as_str, accumulating into steps
RECURSIVE ParseSteps(_, _)
ParseSteps(steps_as_str, steps) ==
    IF steps_as_str = <<>> THEN Returned(steps)
    ELSE LET col == Split(Head(steps_as_str), " ")
         IN  IF DecodeError(col) # ""
             THEN Raised(DecodeError(col))
             ELSE ParseSteps(Tail(steps_as_str), Append(steps, DecodeStep(col)))

\* initialize, lines 92-106
initialize_parse(message) == ParseSteps(Split(message, ","), <<>>)

\* next_step, lines 124-132
next_step_parse(message) ==
    LET col == Split(message, ",")
    IN  IF DecodeError(col) # "" THEN Raised(DecodeError(col))
        ELSE Returned(DecodeStep(col))

----------------------------------------------------------------------------
\* The calls a caller can make, with the defaults of the signatures
Call(name, vc_name, cleanup, mode, timeout) ==
    [name |-> name, vc_name |-> vc_name, cleanup |-> cleanup,
     mode |-> mode, timeout |-> timeout]

Calls ==
    { Call("list", "", FALSE, "Start", 90) }
      \cup { Call("select", n, FALSE, "Start", 90) : n \in CarrierNames }
      \cup { Call("start_load_first", "", c, "Start", 90) : c \in BOOLEAN }
      \cup { Call("load_first", "", c, "Start", t) : c \in BOOLEAN, t \in Timeouts }
      \cup { Call("start_load_next", "", FALSE, "Start", 90) }
      \cup { Call("load_next", "", FALSE, "Start", t) : t \in Timeouts }
      \cup { Call("initialize", n, FALSE, m, t) :
                n \in CarrierNames, m \in VirtualCarrierInitFlags, t \in Timeouts }
      \cup { Call("next_step", "", FALSE, "Start", t) : t \in Timeouts }

\* First position of each operation; load_first and load_next start by
\* calling start_load_first and start_load_next.
Entry(name) ==
    CASE name = "list" -> "list_send"
      [] name = "select" -> "select_send"
      [] name \in {"start_load_first", "load_first"} -> "start_load_first_send"
      [] name \in {"start_load_next", "load_next"} -> "start_load_next_send"
      [] name = "initialize" -> "initialize_send"
      [] name = "next_step" -> "next_step_send"

Init ==
    /\ pc = "idle"
    /\ op = Call("list", "", FALSE, "Start", 90)
    /\ resp = NoResponse
    /\ wresp = NoResponse
    /\ sent = <<>>
    /\ reads = 0
    /\ pending = 0
    /\ scCalls = <<>>
    /\ completion = [done |-> FALSE, msg |-> <<>>]
    /\ ret = NoResult

\* The caller invokes an operation once the previous one has ended.
Invoke ==
    /\ pc \in {"idle", "done"}
    /\ \E c \in Calls :
          /\ op' = c
          /\ pc' = Entry(c.name)
    /\ resp' = NoResponse
    /\ wresp' = NoResponse
    /\ sent' = <<>>
    /\ reads' = 0
    /\ scCalls' = <<>>
    /\ completion' = [done |-> FALSE, msg |-> <<>>]
    /\ ret' = NoResult
    /\ UNCHANGED pending

\* Transport.send(cmd): the line goes out, or send raises.
\* An error ends the operation with outcome onError.
comm_send(cmd, next, onError) ==
    /\ \/ /\ sent' = Append(sent, cmd)
          /\ pending' = pending + 1
          /\ pc' = next
          /\ UNCHANGED ret
       \/ /\ UNCHANGED <<sent, pending>>
          /\ pc' = "done"
          /\ ret' = onError
    /\ UNCHANGED <<op, resp, wresp, reads, scCalls, completion>>

\* Transport.read_line(): one reply line is consumed, or read_line raises.
comm_read_line(line) ==
    /\ line \in Lines \cup {NoResponse}
    /\ reads' = reads + 1
    /\ pending' = pending - 1

\* The Session Controller's wait_complete(cmd_id, timeout): blocks until the
\* operation has completed and delivers its final payload, or raises.
\* args are the arguments as passed by the caller.
prober_wait_complete(args, payload, completed) ==
    /\ scCalls' = Append(scCalls, args)
    /\ completion' = [done |-> completed, msg |-> payload]

\* ---- list (lines 28-35) ----
list_send ==
    /\ pc = "list_send"
    /\ comm_send(<<"loader:vc:list">>, "list_read", Returned(<<>>))

\* Variant of list without the try/except around the exchange
list_read_unguarded ==
    /\ pc = "list_read"
    /\ \E line \in Lines \cup {NoResponse} :
          /\ comm_read_line(line)
          /\ resp' = line
          /\ ret' = IF line = NoResponse THEN Raised("CommError")
                    ELSE IF ~check_resp_ok(line) THEN Raised("ProberException")
                    ELSE Returned(Split(line.msg, ","))
    /\ pc' = "done"
    /\ UNCHANGED <<op, wresp, sent, scCalls, completion>>

list_read ==
    /\ pc = "list_read"
    /\ \E line \in Lines \cup {NoResponse} :
          /\ comm_read_line(line)
          /\ resp' = line
          /\ ret' = IF line # NoResponse /\ check_resp_ok(line)
                    THEN Returned(Split(line.msg, ","))
                    ELSE Returned(<<>>)
    /\ pc' = "done"
    /\ UNCHANGED <<op, wresp, sent, scCalls, completion>>

\* The common shape "resp = Response.check_resp(self.comm.read_line())" of
\* the first reply of an operation: on success go to next, with the Response
\* as the result when the operation returns it.
read_checked(next, returns) ==
    \E line \in Lines \cup {NoResponse} :
       /\ comm_read_line(line)
       /\ resp' = line
       /\ IF line = NoResponse
          THEN pc' = "done" /\ ret' = Raised("CommError")
          ELSE IF ~check_resp_ok(line)
          THEN pc' = "done" /\ ret' = Raised("ProberException")
          ELSE pc' = next /\ ret' = IF returns THEN Returned(line) ELSE NoResult
       /\ UNCHANGED <<op, wresp, sent, scCalls, completion>>

\* "Response.check_resp(self.comm.read_line())" after a wait_complete line
wait_checked(ok) ==
    \E line \in Lines \cup {NoResponse} :
       /\ comm_read_line(line)
       /\ wresp' = line
       /\ pc' = "done"
       /\ ret' = IF line = NoResponse THEN Raised("CommError")
                 ELSE IF ~check_resp_ok(line) THEN Raised("ProberException")
                 ELSE ok
       /\ UNCHANGED <<op, resp, sent, scCalls, completion>>

\* ---- select (lines 50-51) ----
select_send ==
    /\ pc = "select_send"
    /\ comm_send(<<"loader:vc:select", " ", op.vc_name>>, "select_read",
                 Raised("CommError"))

select_read ==
    /\ pc = "select_read"
    /\ read_checked("done", TRUE)

\* ---- start_load_first (lines 66-68) ----
start_load_first_send ==
    /\ pc = "start_load_first_send"
    /\ comm_send(<<"loader:vc:start_load_first", " ", BoolStr(op.cleanup)>>,
                 "start_load_first_read", Raised("CommError"))

start_load_first_read ==
    /\ pc = "start_load_first_read"
    /\ IF op.name = "load_first"
       THEN read_checked("load_first_wait_send", FALSE)
       ELSE read_checked("done", TRUE)

\* ---- load_first (lines 145-147) ----
\* Variant that waits for correlation id 0 instead of the acknowledged one
load_first_wait_send_zero_id ==
    /\ pc = "load_first_wait_send"
    /\ comm_send(WaitLine(0, op.timeout), "load_first_wait_read",
                 Raised("CommError"))

load_first_wait_send ==
    /\ pc = "load_first_wait_send"
    /\ comm_send(WaitLine(resp.cmd_id, op.timeout), "load_first_wait_read",
                 Raised("CommError"))

\* Variant that returns without reading the reply of the wait line
load_first_wait_no_read ==
    /\ pc = "load_first_wait_read"
    /\ pc' = "done"
    /\ ret' = Returned(<<>>)
    /\ UNCHANGED <<op, resp, wresp, sent, reads, pending, scCalls, completion>>

load_first_wait_read ==
    /\ pc = "load_first_wait_read"
    /\ wait_checked(Returned(<<>>))

\* ---- start_load_next (lines 162-164) ----
start_load_next_send ==
    /\ pc = "start_load_next_send"
    /\ comm_send(<<"loader:vc:start_load_next">>, "start_load_next_read",
                 Raised("CommError"))

\* Variant that reads the reply without validating it
start_load_next_read_unchecked ==
    /\ pc = "start_load_next_read"
    /\ \E line \in Lines \cup {NoResponse} :
          /\ comm_read_line(line)
          /\ resp' = line
          /\ IF line = NoResponse
             THEN pc' = "done" /\ ret' = Raised("CommError")
             ELSE IF op.name = "load_next"
             THEN pc' = "load_next_wait_send" /\ ret' = NoResult
             ELSE pc' = "done" /\ ret' = Returned(line)
    /\ UNCHANGED <<op, wresp, sent, scCalls, completion>>

start_load_next_read ==
    /\ pc = "start_load_next_read"
    /\ IF op.name = "load_next"
       THEN read_checked("load_next_wait_send", FALSE)
       ELSE read_checked("done", TRUE)

\* ---- load_next (lines 177-179) ----
\* Variant that waits through the Session Controller, as initialize does
load_next_wait_via_prober ==
    /\ pc = "load_next_wait_send"
    /\ \E payload \in Payloads, completed \in BOOLEAN :
          /\ prober_wait_complete(<<resp.cmd_id>>, payload, completed)
          /\ ret' = IF completed THEN Returned(<<>>)
                    ELSE Raised("ProberException")
    /\ pc' = "done"
    /\ UNCHANGED <<op, resp, wresp, sent, reads, pending>>

load_next_wait_send ==
    /\ pc = "load_next_wait_send"
    /\ comm_send(WaitLine(resp.cmd_id, op.timeout), "load_next_wait_read",
                 Raised("CommError"))

load_next_wait_read ==
    /\ pc = "load_next_wait_read"
    /\ wait_checked(Returned(<<>>))

\* ---- initialize (lines 86-106) ----
initialize_send ==
    /\ pc = "initialize_send"
    /\ comm_send(<<"loader:vc:start_initialize", " ", op.vc_name, ",", " ",
                   toSentioAbbr(op.mode)>>,
                 "initialize_read", Raised("CommError"))

initialize_read ==
    /\ pc = "initialize_read"
    /\ read_checked("initialize_wait", FALSE)

\* line 89, then the decoding of lines 92-106
initialize_wait ==
    /\ pc = "initialize_wait"
    /\ \E payload \in Payloads, completed \in BOOLEAN :
          /\ prober_wait_complete(<<resp.cmd_id>>, payload, completed)
          /\ ret' = IF completed THEN initialize_parse(resp.msg)
                    ELSE Raised("ProberException")
    /\ pc' = "done"
    /\ UNCHANGED <<op, resp, wresp, sent, reads, pending>>

\* ---- next_step (lines 118-132) ----
next_step_send ==
    /\ pc = "next_step_send"
    /\ comm_send(<<"loader:vc:start_next_step">>, "next_step_read",
                 Raised("CommError"))

next_step_read ==
    /\ pc = "next_step_read"
    /\ read_checked("next_step_wait_send", FALSE)

next_step_wait_send ==
    /\ pc = "next_step_wait_send"
    /\ comm_send(WaitLine(resp.cmd_id, op.timeout), "next_step_wait_read",
                 Raised("CommError"))

next_step_wait_read ==
    /\ pc = "next_step_wait_read"
    /\ wait_checked(next_step_parse(resp.msg))

Next ==
    \/ Invoke
    \/ list_send
    \/ list_read
    \/ select_send
    \/ select_read
    \/ start_load_first_send
    \/ start_load_first_read
    \/ load_first_wait_send
    \/ load_first_wait_read
    \/ start_load_next_send
    \/ start_load_next_read
    \/ load_next_wait_send
    \/ load_next_wait_read
    \/ initialize_send
    \/ initialize_read
    \/ initialize_wait
    \/ next_step_send
    \/ next_step_read
    \/ next_step_wait_send
    \/ next_step_wait_read

Spec == Init /\ [][Next]_vars

----------------------------------------------------------------------------
\* Properties

Accepted(r) == r # NoResponse /\ check_resp_ok(r)

Ended(name) == pc = "done" /\ op.name = name

HasWaitLine == \E i \in 1..Len(sent) : IsWaitLine(sent[i])

\* The step a well formed record stands for
Expected(r) ==
    <<r[1], <<r[2]>>, r[3], IntValue(r[4]), FloatValue(r[5]), IntValue(r[6])>>

SendPositions ==
    {"list_send", "select_send", "start_load_first_send", "load_first_wait_send",
     "start_load_next_send", "load_next_wait_send", "initialize_send",
     "next_step_send", "next_step_wait_send"}

\* C1: strict request/response pairing. At most one sent command is waiting
\* for its read_line; a command is sent only when no earlier command is
\* outstanding; and when an operation has ended, with a result or an error,
\* every command it sent has had its read_line.
C1_StrictPairing ==
    /\ pending \in {0, 1}
    /\ pc \in SendPositions => pending = 0
    /\ pc \in {"idle", "done"} => pending = 0 /\ reads = Len(sent)

C1_Witness ==
    /\ Ended("load_first")
    /\ Len(sent) = 2
    /\ reads = 2
    /\ ret.kind = "raised"

\* C2: list never surfaces a failure. After a failed send, a failed read or
\* a rejected reply it returns the empty sequence; after an accepted reply
\* with payload n1,...,nk it returns the names n1..nk in payload order.
C2_ListSwallowsErrors ==
    Ended("list") =>
       /\ ret.kind = "returned"
       /\ ~Accepted(resp) => ret.value = <<>>
       /\ \A ns \in NameLists :
             Accepted(resp) /\ resp.msg = NamePayload(ns)
                => ret.value = [i \in 1..Len(ns) |-> <<ns[i]>>]

C2_Witness ==
    /\ Ended("list")
    /\ resp.errc = "rejected"
    /\ ret = Returned(<<>>)

\* C3: in every operation except list a rejected reply ends the operation
\* with the error raised to the caller, and nothing is sent afterwards: a
\* rejected start command is the only command of the operation and is
\* followed by no wait of either kind.
C3_RejectionPropagates ==
    op.name # "list" /\ (resp.errc = "rejected" \/ wresp.errc = "rejected") =>
       /\ pc = "done"
       /\ ret = Raised("ProberException")
       /\ resp.errc = "rejected" =>
             Len(sent) = 1 /\ ~HasWaitLine /\ scCalls = <<>> /\ wresp = NoResponse
       /\ wresp.errc = "rejected" => Len(sent) = 2 /\ reads = 2

C3_Witness ==
    /\ Ended("load_next")
    /\ resp.errc = "rejected"
    /\ ret.kind = "raised"

\* C4: every completion wait issued by load_first, load_next, initialize
\* and next_step carries the caller's timeout: the wait_complete line ends
\* with it, and the Session Controller call passes it.
C4_TimeoutPassedThrough ==
    op.name \in {"load_first", "load_next", "initialize", "next_step"} =>
       /\ \A i \in 1..Len(sent) :
             IsWaitLine(sent[i]) => sent[i][Len(sent[i])] = IntStr(op.timeout)
       /\ \A i \in 1..Len(scCalls) :
             Len(scCalls[i]) = 2 /\ scCalls[i][2] = op.timeout

\* C5: when the replies of next_step are accepted and carry one record of
\* six fields separated by single blanks, next_step returns the step of
\* that record, having sent a wait_complete line with the caller's timeout.
C5_NextStepDecodesRecord ==
    \A r \in Records :
       (/\ Ended("next_step")
        /\ Accepted(resp) /\ resp.msg = RecordText(r)
        /\ Accepted(wresp) /\ wresp.msg = RecordText(r))
       => (/\ ret = Returned(Expected(r))
           /\ sent[2] = WaitLine(resp.cmd_id, op.timeout))

\* C6: initialize is order preserving. When the payload it decodes is made
\* of k >= 1 well formed records separated by ",", it returns exactly k
\* steps and the i-th step is the decoding of the i-th record.
C6_InitializeOrderPreserving ==
    Ended("initialize") /\ completion.done =>
       \A rs \in RecordLists :
          resp.msg = StepPayload(rs)
             => ret = Returned([i \in 1..Len(rs) |-> Expected(rs[i])])

C6_Witness ==
    /\ Ended("initialize")
    /\ ret.kind = "returned"
    /\ Len(ret.value) = 2
    /\ ret.value[1] # ret.value[2]

\* C7: start_load_first and start_load_next send one command, read one
\* reply and return the acknowledged Response without any wait. load_first
\* and load_next send the wait only after the start command has been
\* acknowledged, keyed by the correlation id of that acknowledgement; they
\* return only if the reply to the wait is accepted and raise if it is not.
C7_AsyncPair ==
    /\ op.name \in {"start_load_first", "start_load_next"} =>
          /\ Len(sent) <= 1 /\ reads <= 1
          /\ ~HasWaitLine /\ scCalls = <<>>
          /\ pc = "done" /\ ret.kind = "returned" =>
                Len(sent) = 1 /\ reads = 1 /\ Accepted(resp) /\ ret.value = resp
    /\ op.name \in {"load_first", "load_next"} =>
          /\ Len(sent) <= 2 /\ scCalls = <<>>
          /\ Len(sent) >= 1 => ~IsWaitLine(sent[1])
          /\ Len(sent) = 2 =>
                Accepted(resp) /\ sent[2] = WaitLine(resp.cmd_id, op.timeout)
          /\ pc = "done" => ret.kind \in {"returned", "raised"}
          /\ pc = "done" /\ ret.kind = "returned" =>
                Len(sent) = 2 /\ reads = 2 /\ Accepted(wresp) /\ ret.value = <<>>
          /\ pc = "done" /\ reads = 2 /\ ~Accepted(wresp) => ret.kind = "raised"

C7_Witness ==
    /\ Ended("load_first")
    /\ ret.kind = "returned"
    /\ sent[2] = WaitLine(2, 30)

\* C8: list returns the same value after a failed exchange as after an
\* accepted reply whose payload is empty, namely the empty sequence.
C8_EmptyPayloadLikeFailure ==
    Ended("list") /\ Accepted(resp) /\ resp.msg = <<>> => ret = Returned(<<>>)

\* C9: whenever the payload of the acknowledgement and the payload delivered
\* on completion differ, the result of initialize is the decoding of the
\* completion payload.
C9_DecodesCompletionPayload ==
    Ended("initialize") /\ completion.done /\ resp.msg # completion.msg
       => ret = initialize_parse(completion.msg)

\* C10 as stated: initialize, load_first and load_next wait through the
\* Session Controller and send no wait_complete line themselves; next_step
\* is the only operation that sends a wait_complete line.
C10_OnlyNextStepSendsWaitLine ==
    /\ HasWaitLine => op.name = "next_step"
    /\ Ended("load_first") /\ ret.kind = "returned" => Len(scCalls) = 1
    /\ Ended("load_next") /\ ret.kind = "returned" => Len(scCalls) = 1
    /\ Ended("initialize") /\ ret.kind = "returned" => Len(scCalls) = 1

\* C10 amended: initialize is the only operation that waits through the
\* Session Controller, keyed by the correlation id, and it sends no
\* wait_complete line; load_first, load_next and next_step each send their
\* own wait_complete line on the Transport and never call the Session
\* Controller.
C10_WaitPaths ==
    /\ scCalls # <<>> =>
          op.name = "initialize" /\ Len(scCalls) = 1 /\ scCalls[1][1] = resp.cmd_id
    /\ HasWaitLine => op.name \in {"load_first", "load_next", "next_step"}
    /\ Ended("initialize") /\ ret.kind = "returned" =>
          Len(scCalls) = 1 /\ ~HasWaitLine
    /\ pc = "done" /\ ret.kind = "returned"
          /\ op.name \in {"load_first", "load_next", "next_step"}
          => IsWaitLine(sent[Len(sent)]) /\ scCalls = <<>>

C10_Witness ==
    /\ Ended("load_next")
    /\ ret.kind = "returned"
    /\ HasWaitLine
    /\ scCalls = <<>>

====
